---- MODULE Spec2Model ----
(***************************************************************************)
(* Counter service: the Express routing table and the five counter         *)
(* handlers of the server module, on top of the persistence module db.js   *)
(* (a PouchDB database named "counters").                                  *)
(*                                                                         *)
(* A handler is an async function.  Invoking it touches nothing shared, so *)
(* the invocation is taken in one step with the first store call it awaits *)
(* and the continuation up to the next await; every later store call takes *)
(* effect atomically in a step of its own, with the continuation after it. *)
(* Several requests are in flight at once (one per slot) and their steps   *)
(* interleave freely: the store promises no order between pending calls.   *)
(***************************************************************************)
EXTENDS Integers, Sequences, FiniteSets, TLC

\* ------------------------------------------------------------------ bounds
MaxWrites == 3       \* writes the store accepts in one run, pending ones counted

\* ------------------------------------------------------------------ domains
Names == {"a", "b", "c"}         \* well-formed counter names
NameOrder == <<"a", "b", "c">>   \* the store's key order (allDocs sorts by _id)
Undefined == "<undefined>"       \* request.query.name when the parameter is absent
Empty == ""                      \* request.query.name for "?name="
NameArgs == Names \cup {Empty, Undefined}
\* Two requests are in flight at a time: a step reads the store and its own
\* request only, so one other request is what it takes to change the store
\* between two awaits of a handler.
Slots == {1, 2}

\* The requests explored: the five the client sends, a defined path with a
\* method it does not define, and a path no route names.
ClientRequests ==
  {<<"POST", "/create">>, <<"GET", "/read">>, <<"PUT", "/update">>,
   <<"DELETE", "/delete">>, <<"GET", "/all">>}
Requests == ClientRequests \cup {<<"POST", "/read">>, <<"GET", "/nope">>}

NoCounter == [id |-> Undefined, rev |-> 0, count |-> 0]

VARIABLES
  docs,      \* the "counters" database: per id, the winning revision
  faulty,    \* TRUE while the database cannot be accessed
  req,       \* per slot, the request whose handler or removal is still pending
  last,      \* the request of the latest step, as that step left it
  chain,     \* history: a counter created and since then only updated one at a time
  gone,      \* history: the name whose delete last responded 200, until created again
  tally      \* history: per name, the updates answered 200 since its creation (ok)
             \* and the highest revision loaded by an update answered 200 (rev)

vars == <<docs, faulty, req, last, chain, gone, tally>>

\* ------------------------------------------------------------------ PouchDB
\* A document that was never written has rev 0; every accepted write (put or
\* remove) makes the next generation, so a revision read earlier is current
\* only while nothing was written in between.
NoDocState == [exists |-> FALSE, rev |-> 0, count |-> 0]

ValidId(id) == id \in Names

\* A live document is stored under name n.
Live(d, n) == n \in Names /\ d[n].exists

\* db.put(doc): a doc without _rev (rev = 0) is accepted only when no live
\* document has that id; a doc with _rev only when _rev is the live revision.
DbPut(d, f, doc) ==
  IF f \/ ~ValidId(doc.id) THEN [ok |-> FALSE, docs |-> d]
  ELSE IF doc.rev = 0 /\ ~d[doc.id].exists
         THEN [ok |-> TRUE,
               docs |-> [d EXCEPT ![doc.id] =
                          [exists |-> TRUE, rev |-> d[doc.id].rev + 1, count |-> doc.count]]]
  ELSE IF doc.rev # 0 /\ d[doc.id].exists /\ d[doc.id].rev = doc.rev
         THEN [ok |-> TRUE,
               docs |-> [d EXCEPT ![doc.id] =
                          [exists |-> TRUE, rev |-> d[doc.id].rev + 1, count |-> doc.count]]]
  ELSE [ok |-> FALSE, docs |-> d]

\* db.get(id): the live document with its _id and _rev, or a rejection.
DbGet(d, f, id) ==
  IF ~f /\ ValidId(id) /\ d[id].exists
    THEN [ok |-> TRUE, doc |-> [id |-> id, rev |-> d[id].rev, count |-> d[id].count]]
    ELSE [ok |-> FALSE, doc |-> NoCounter]

\* db.remove(doc): accepted only when doc._rev is the live revision; leaves a
\* tombstone one generation later.
DbRemove(d, f, doc) ==
  IF ~f /\ ValidId(doc.id) /\ d[doc.id].exists /\ d[doc.id].rev = doc.rev
    THEN [ok |-> TRUE,
          docs |-> [d EXCEPT ![doc.id] =
                     [exists |-> FALSE, rev |-> d[doc.id].rev + 1, count |-> 0]]]
    ELSE [ok |-> FALSE, docs |-> d]

RECURSIVE WritesFrom(_, _)
WritesFrom(d, i) ==
  IF i > Len(NameOrder) THEN 0 ELSE d[NameOrder[i]].rev + WritesFrom(d, i + 1)

\* Writes accepted so far: every accepted write makes one generation.
Writes(d) == WritesFrom(d, 1)

RECURSIVE LiveRows(_, _)
LiveRows(d, i) ==
  IF i > Len(NameOrder) THEN <<>>
  ELSE (IF d[NameOrder[i]].exists
          THEN << <<NameOrder[i], d[NameOrder[i]].count>> >>
          ELSE <<>>) \o LiveRows(d, i + 1)

\* db.allDocs({include_docs: true}): the live documents in key order.
DbAllDocs(d, f) ==
  IF f THEN [ok |-> FALSE, rows |-> <<>>] ELSE [ok |-> TRUE, rows |-> LiveRows(d, 1)]

\* ------------------------------------------------------------------ db.js
\* Mutant: the new document does not carry the count it was given.
saveCounterDropsCount(d, f, name, count) ==
  DbPut(d, f, [id |-> name, rev |-> 0, count |-> count + 1])

\* Mutant: the document is put under a fixed id instead of the name.
saveCounterFixedId(d, f, name, count) == DbPut(d, f, [id |-> "a", rev |-> 0, count |-> count])

\* Mutant: an upsert, the document is written over the live revision.
saveCounterUpsert(d, f, name, count) ==
  DbPut(d, f, [id |-> name, rev |-> IF Live(d, name) THEN d[name].rev ELSE 0,
               count |-> count])

saveCounter(d, f, name, count) == DbPut(d, f, [id |-> name, rev |-> 0, count |-> count])

\* Mutant: the write-back takes the live revision instead of the loaded one.
modifyCounterForce(d, f, doc) ==
  DbPut(d, f, [doc EXCEPT !.rev = IF Live(d, doc.id) THEN d[doc.id].rev ELSE doc.rev])

modifyCounter(d, f, doc) == DbPut(d, f, doc)

loadCounter(d, f, name) == DbGet(d, f, name)

\* Mutant: the removal takes the live revision instead of the loaded one.
removeCounterLive(d, f, doc) ==
  DbRemove(d, f, [doc EXCEPT !.rev = IF Live(d, doc.id) THEN d[doc.id].rev ELSE doc.rev])

\* Mutant: the removal is asked for by name alone, without the revision.
removeCounterNoRev(d, f, doc) == DbRemove(d, f, [doc EXCEPT !.rev = 0])

\* removeCounter does not await db.remove: its own promise always resolves, and
\* the removal's outcome reaches nobody.  The operator is the removal itself.
removeCounter(d, f, doc) == DbRemove(d, f, doc)

\* What the caller of removeCounter observes, res being the outcome of the
\* db.remove it started: the async function returns without awaiting or
\* returning that promise, so its own promise resolves whatever res is.
removeCounterPromise(res) == "resolved"

\* Mutant: the first row is lost in the mapping.
loadAllCountersDropsFirst(d, f) ==
  IF DbAllDocs(d, f).ok /\ DbAllDocs(d, f).rows # <<>>
    THEN [ok |-> TRUE, rows |-> Tail(DbAllDocs(d, f).rows)]
    ELSE DbAllDocs(d, f)

loadAllCounters(d, f) == DbAllDocs(d, f)

\* ------------------------------------------------------------------ requests
Handlers == {"createCounter", "readCounter", "updateCounter", "deleteCounter", "dumpCounters"}
Mutators == {"createCounter", "updateCounter", "deleteCounter"}
None == "<none>"

IdleReq ==
  [via |-> "none", method |-> "-", path |-> "-", handler |-> "none", name |-> Undefined,
   pc |-> "idle", status |-> 0, heads |-> 0, ended |-> FALSE,
   counter |-> NoCounter, body |-> <<>>, dbCalls |-> 0, removeRes |-> "none",
   \* history of the request
   wrote |-> FALSE, fresh |-> FALSE, afterDelete |-> FALSE, inChain |-> FALSE,
   endedAtRemove |-> FALSE, loadOk |-> FALSE, cause |-> "none",
   saveRes |-> "none", removeSeen |-> "none", unhandled |-> FALSE,
   loaded |-> 0, again |-> FALSE,
   before |-> [n \in Names |-> NoDocState]]

Free(s) == req[s].pc = "idle"

\* response.writeHead(code, headerFields)
WriteHead(r, code) == [r EXCEPT !.status = code, !.heads = @ + 1]

\* response.write(text)
Write(r, text) == [r EXCEPT !.body = text]

\* response.end()
End(r) == [r EXCEPT !.ended = TRUE]

\* ------------------------------------------------------------------ handlers
\* Each handler is split at its awaits: XStart runs to the first await, and
\* the operators named after the awaited call run the continuation with the
\* call's result res.

\* createCounter, up to `await db.saveCounter(name, 0)`.
createCounterStart(r) ==
  IF r.name = Undefined
    THEN [End(WriteHead(r, 400)) EXCEPT !.pc = "done"]
    ELSE [r EXCEPT !.pc = "save", !.dbCalls = @ + 1]

\* createCounter, after the await: 200, or 500 from the catch.
createCounterAfterSave(r, res) ==
  IF res.ok
    THEN [End(WriteHead(r, 200)) EXCEPT !.pc = "done"]
    ELSE [End(WriteHead(r, 500)) EXCEPT !.pc = "done"]

\* readCounter, up to `await db.loadCounter(name)`.
readCounterStart(r) == [r EXCEPT !.pc = "load", !.dbCalls = @ + 1]

\* readCounter, after the await: 200 with _id and count, or 404 from the catch.
readCounterAfterLoad(r, res) ==
  IF res.ok
    THEN [End(Write(WriteHead(r, 200), <<res.doc.id, res.doc.count>>)) EXCEPT
            !.pc = "done"]
    ELSE [End(WriteHead(r, 404)) EXCEPT !.pc = "done"]

\* updateCounter, up to `await db.loadCounter(name)`.
updateCounterStart(r) == [r EXCEPT !.pc = "load", !.dbCalls = @ + 1]

\* Mutant: the loaded counter is written back without the increment.
updateCounterAfterLoadNoIncrement(r, res) ==
  IF res.ok
    THEN [r EXCEPT !.counter = res.doc, !.pc = "modify", !.dbCalls = @ + 1]
    ELSE [End(WriteHead(r, 404)) EXCEPT !.pc = "done"]

\* Mutant: the increment is by two.
updateCounterAfterLoadAddsTwo(r, res) ==
  IF res.ok
    THEN [r EXCEPT !.counter = [res.doc EXCEPT !.count = @ + 2],
                   !.pc = "modify", !.dbCalls = @ + 1]
    ELSE [End(WriteHead(r, 404)) EXCEPT !.pc = "done"]

\* updateCounter, after the load: counter.count++ and up to
\* `await db.modifyCounter(counter)`, or 404 from the catch.
updateCounterAfterLoad(r, res) ==
  IF res.ok
    THEN [r EXCEPT !.counter = [res.doc EXCEPT !.count = @ + 1],
                   !.pc = "modify", !.dbCalls = @ + 1]
    ELSE [End(WriteHead(r, 404)) EXCEPT !.pc = "done"]

\* updateCounter, after the write-back: 200, or 404 from the catch.
updateCounterAfterModify(r, res) ==
  IF res.ok
    THEN [End(WriteHead(r, 200)) EXCEPT !.pc = "done", !.counter = NoCounter]
    ELSE [End(WriteHead(r, 404)) EXCEPT !.pc = "done", !.counter = NoCounter]

\* deleteCounter, up to `await db.loadCounter(name)`.
deleteCounterStart(r) == [r EXCEPT !.pc = "load", !.dbCalls = @ + 1]

\* The call db.removeCounter(counter), which nothing awaits.
IssueRemove(r) ==
  [r EXCEPT !.pc = "remove", !.dbCalls = @ + 1, !.endedAtRemove = r.ended]

\* Mutant: the removal is issued before the response is ended.
deleteCounterAfterLoadRemovesFirst(r, res) ==
  IF res.ok
    THEN End(IssueRemove(WriteHead([r EXCEPT !.counter = res.doc], 200)))
    ELSE [End(WriteHead(r, 404)) EXCEPT !.pc = "done"]

\* deleteCounter, after the load: 200 is written and ended, then the removal
\* is issued; or 404 from the catch.
deleteCounterAfterLoad(r, res) ==
  IF res.ok
    THEN IssueRemove(End(WriteHead([r EXCEPT !.counter = res.doc], 200)))
    ELSE [End(WriteHead(r, 404)) EXCEPT !.pc = "done"]

\* Mutant: the removal is awaited inside the try, so its rejection reaches the
\* catch, which writes the 404 after the 200.
deleteCounterAfterRemoveCaught(r, res) ==
  IF res.ok
    THEN [r EXCEPT !.pc = "done", !.counter = NoCounter, !.removeRes = "removed",
                   !.removeSeen = "resolved"]
    ELSE [End(WriteHead(r, 404)) EXCEPT !.pc = "done", !.counter = NoCounter,
                                        !.removeRes = "rejected", !.removeSeen = "rejected"]

\* The removal reaches the store after the handler has returned.  A rejection
\* of db.remove that removeCounter's promise does not carry has no handler.
deleteCounterAfterRemove(r, res) ==
  [r EXCEPT !.pc = "done", !.counter = NoCounter,
            !.removeRes = IF res.ok THEN "removed" ELSE "rejected",
            !.removeSeen = removeCounterPromise(res),
            !.unhandled = ~res.ok /\ removeCounterPromise(res) = "resolved"]

\* dumpCounters, up to `await db.loadAllCounters()`.
dumpCountersStart(r) == [r EXCEPT !.pc = "loadAll", !.dbCalls = @ + 1]

\* dumpCounters, after the await: 200 with one `_id = count` line per document,
\* or 500 from the catch.
dumpCountersAfterLoadAll(r, res) ==
  IF res.ok
    THEN [End(Write(WriteHead(r, 200), res.rows)) EXCEPT !.pc = "done"]
    ELSE [End(WriteHead(r, 500)) EXCEPT !.pc = "done"]

\* ------------------------------------------------------------------ routing
\* TASK #3 handler as written: response.send("Not Implemented"), status untouched.
MethodNotAllowedHandler(r) == [End(WriteHead(r, 200)) EXCEPT !.pc = "done"]

\* app.route("*").all(...): response.status(404).send(`Not found: ${request.path}`)
NotFoundHandler(r) == [End(WriteHead(r, 404)) EXCEPT !.pc = "done"]

\* The routing table: "/read" is the only counter route that is registered;
\* every other path falls to the final "*" route.
Route(m, p) ==
  IF p = "/read"
    THEN (IF m = "GET" THEN "readCounter" ELSE "MethodNotAllowedHandler")
    ELSE "NotFoundHandler"

\* The query parameter matters only to a handler that reads it.
QueryNames(h) == IF h \in Handlers \ {"dumpCounters"} THEN NameArgs ELSE {Undefined}

\* ------------------------------------------------------------------ state machine
NoChain == [name |-> None, len |-> 0, ok |-> TRUE]
NoTally == [n \in Names |-> [ok |-> 0, rev |-> 0]]

Init ==
  /\ docs = [n \in Names |-> NoDocState]
  /\ faulty = FALSE
  /\ req = [s \in Slots |-> IdleReq]
  /\ last = IdleReq
  /\ chain = NoChain
  /\ gone = None
  /\ tally = NoTally

\* Store calls that are pending and may still write: a write-back, a removal.
Pending == Cardinality({s \in Slots : req[s].pc \in {"modify", "remove"}})

\* The run is cut off at MaxWrites writes: a request that may write (its first
\* store call succeeded) is taken only while the writes accepted and the writes
\* pending leave room for one more, so no pending store call is ever held up.
Within(res) == res.ok => Writes(docs) + Pending < MaxWrites

\* Another create, update or delete on name n is in flight (a delete stays in
\* flight until its removal has reached the store).
OtherMutator(s, n) ==
  \E t \in Slots \ {s} : req[t].handler \in Mutators /\ req[t].name = n /\ req[t].pc # "idle"

\* The request record a handler starts from.
NewReq(via, m, p, h, n) ==
  [IdleReq EXCEPT !.via = via, !.method = m, !.path = p, !.handler = h, !.name = n,
                  !.before = docs]

\* History: the step of a request that changed the store is remembered in it.
Noting(r, d) == [r EXCEPT !.wrote = @ \/ d # docs, !.before = docs]

\* The request r, as its step left it, stays in slot s while a store call of
\* it is pending and leaves the slot when nothing of it is.
Keep(s, r) ==
  /\ req' = [req EXCEPT ![s] = IF r.pc = "done" THEN IdleReq ELSE r]
  /\ last' = r

\* createCounter(response, name) runs, with db.saveCounter(name, 0).
CreateStep(s, via, m, p, n) ==
  LET r0 == createCounterStart(NewReq(via, m, p, "createCounter", n))
      res == saveCounter(docs, faulty, n, 0)
      r1 == IF r0.pc = "save"
              THEN [createCounterAfterSave(r0, res) EXCEPT
                      !.saveRes = IF res.ok THEN "resolved" ELSE "rejected"]
              ELSE r0
      d1 == IF r0.pc = "save" THEN res.docs ELSE docs
      made == r0.pc = "save" /\ res.ok
  IN /\ r0.pc = "save" => Within(res)
     /\ docs' = d1
     /\ Keep(s, Noting(r1, d1))
     /\ chain' = IF made /\ ~OtherMutator(s, n)
                   THEN [name |-> n, len |-> 0, ok |-> TRUE]
                 ELSE IF chain.name = n THEN NoChain
                 ELSE chain
     /\ gone' = IF made /\ gone = n THEN None ELSE gone
     /\ tally' = IF made THEN [tally EXCEPT ![n].ok = 0] ELSE tally
     /\ UNCHANGED faulty

\* Mutant: the read writes the document it loaded back to the store.
ReadStepTouches(s, via, m, p, n) ==
  LET r0 == readCounterStart(NewReq(via, m, p, "readCounter", n))
      res == loadCounter(docs, faulty, n)
      r1 == readCounterAfterLoad(r0, res)
      d1 == IF res.ok THEN modifyCounter(docs, faulty, res.doc).docs ELSE docs
  IN /\ docs' = d1
     /\ Keep(s, [Noting(r1, d1) EXCEPT !.fresh = (chain.name = n /\ chain.len = 0),
                                       !.afterDelete = (gone = n)])
     /\ UNCHANGED <<faulty, chain, gone, tally>>

\* readCounter(response, name) runs, with db.loadCounter(name).
ReadStep(s, via, m, p, n) ==
  LET r0 == readCounterStart(NewReq(via, m, p, "readCounter", n))
      res == loadCounter(docs, faulty, n)
      r1 == readCounterAfterLoad(r0, res)
  IN /\ Keep(s, [r1 EXCEPT !.fresh = (chain.name = n /\ chain.len = 0),
                           !.afterDelete = (gone = n)])
     /\ UNCHANGED <<docs, faulty, chain, gone, tally>>

\* updateCounter(response, name) runs up to `await db.modifyCounter(counter)`.
UpdateStep(s, via, m, p, n) ==
  LET r0 == updateCounterStart(NewReq(via, m, p, "updateCounter", n))
      res == loadCounter(docs, faulty, n)
      r1 == updateCounterAfterLoad(r0, res)
      seq == chain.name = n /\ ~OtherMutator(s, n)
  IN /\ Within(res)
     /\ Keep(s, [r1 EXCEPT !.inChain = seq, !.loadOk = res.ok,
                           !.loaded = IF res.ok THEN res.doc.rev ELSE 0,
                           !.cause = IF Live(docs, n) THEN "none" ELSE "absent"])
     /\ chain' = IF chain.name # n THEN chain
                 ELSE IF ~seq THEN NoChain
                 ELSE IF r1.pc = "done" THEN [chain EXCEPT !.ok = FALSE]
                 ELSE chain
     /\ UNCHANGED <<docs, faulty, gone, tally>>

\* deleteCounter(response, name) runs to its end: the response is complete and
\* the removal is issued.
DeleteStep(s, via, m, p, n) ==
  LET r0 == deleteCounterStart(NewReq(via, m, p, "deleteCounter", n))
      res == loadCounter(docs, faulty, n)
      r1 == deleteCounterAfterLoad(r0, res)
  IN /\ Within(res)
     /\ Keep(s, [r1 EXCEPT !.loadOk = res.ok,
                           !.loaded = IF res.ok THEN res.doc.rev ELSE 0])
     /\ chain' = IF chain.name = n THEN NoChain ELSE chain
     /\ gone' = IF r1.status = 200 THEN n ELSE gone
     /\ UNCHANGED <<docs, faulty, tally>>

\* dumpCounters(response) runs, with db.loadAllCounters().
DumpStep(s, via, m, p) ==
  LET r0 == dumpCountersStart(NewReq(via, m, p, "dumpCounters", Undefined))
      res == loadAllCounters(docs, faulty)
  IN /\ Keep(s, dumpCountersAfterLoadAll(r0, res))
     /\ UNCHANGED <<docs, faulty, chain, gone, tally>>

\* What the matched route does with the request.
Dispatch(s, h, m, p, n) ==
  CASE h = "createCounter" -> CreateStep(s, "http", m, p, n)
    [] h = "readCounter" -> ReadStep(s, "http", m, p, n)
    [] h = "updateCounter" -> UpdateStep(s, "http", m, p, n)
    [] h = "deleteCounter" -> DeleteStep(s, "http", m, p, n)
    [] h = "dumpCounters" -> DumpStep(s, "http", m, p)
    [] h = "MethodNotAllowedHandler" ->
         /\ Keep(s, MethodNotAllowedHandler(NewReq("http", m, p, h, Undefined)))
         /\ UNCHANGED <<docs, faulty, chain, gone, tally>>
    [] OTHER ->
         /\ Keep(s, NotFoundHandler(NewReq("http", m, p, h, Undefined)))
         /\ UNCHANGED <<docs, faulty, chain, gone, tally>>

\* An HTTP request arrives: method m, path p, query parameter name n.
HttpRequest(s, m, p, n) == Free(s) /\ Dispatch(s, Route(m, p), m, p, n)

\* The handlers, invoked as functions.
createCounter(s, n) == Free(s) /\ CreateStep(s, "call", "-", "-", n)

readCounter(s, n) == Free(s) /\ ReadStep(s, "call", "-", "-", n)

updateCounter(s, n) == Free(s) /\ UpdateStep(s, "call", "-", "-", n)

deleteCounter(s, n) == Free(s) /\ DeleteStep(s, "call", "-", "-", n)

dumpCounters(s) == Free(s) /\ DumpStep(s, "call", "-", "-")

\* db.modifyCounter(counter) completes and updateCounter resumes.
updateCounterModify(s) ==
  /\ req[s].pc = "modify"
  /\ LET r == req[s]
         n == r.name
         res == modifyCounter(docs, faulty, r.counter)
         r1 == updateCounterAfterModify(r, res)
     IN /\ docs' = res.docs
        /\ Keep(s, [Noting(r1, res.docs) EXCEPT
                       !.cause = IF Live(docs, n) /\ docs[n].rev = r.counter.rev
                                   THEN "none" ELSE "stale",
                       !.again = r.loaded <= tally[n].rev])
        /\ tally' = IF r1.status = 200
                      THEN [tally EXCEPT ![n].ok = @ + 1,
                                         ![n].rev = IF r.loaded > @ THEN r.loaded ELSE @]
                      ELSE tally
        /\ chain' = IF r.inChain /\ chain.name = n
                      THEN [chain EXCEPT !.len = @ + 1, !.ok = @ /\ r1.status = 200]
                      ELSE chain
  /\ UNCHANGED <<faulty, gone>>

\* The db.remove issued by removeCounter takes effect.
deleteCounterRemove(s) ==
  /\ req[s].pc = "remove"
  /\ LET r == req[s]
         res == removeCounter(docs, faulty, r.counter)
     IN /\ docs' = res.docs
        /\ Keep(s, [Noting(deleteCounterAfterRemove(r, res), res.docs) EXCEPT
                       !.cause = IF Live(docs, r.name) /\ docs[r.name].rev = r.counter.rev
                                   THEN "none" ELSE "stale"])
        /\ tally' = IF res.ok THEN [tally EXCEPT ![r.name].ok = 0] ELSE tally
  /\ UNCHANGED <<faulty, chain, gone>>

Next ==
  \E s \in Slots :
    \/ \E q \in Requests :
         \E n \in QueryNames(Route(q[1], q[2])) : HttpRequest(s, q[1], q[2], n)
    \/ \E n \in NameArgs : createCounter(s, n)
    \/ \E n \in NameArgs : readCounter(s, n)
    \/ \E n \in NameArgs : updateCounter(s, n)
    \/ updateCounterModify(s)
    \/ \E n \in NameArgs : deleteCounter(s, n)
    \/ deleteCounterRemove(s)
    \/ dumpCounters(s)

\* The store is healthy throughout.
Spec == Init /\ [][Next]_vars

\* Every store call that was issued completes: a pending write-back and a
\* pending removal are eventually served by the store.
SpecLive ==
  /\ Init /\ [][Next]_vars
  /\ \A s \in Slots : WF_vars(updateCounterModify(s)) /\ WF_vars(deleteCounterRemove(s))

\* The database stops being accessible: from then on every store call rejects.
StoreFault ==
  /\ ~faulty
  /\ faulty' = TRUE
  /\ UNCHANGED <<docs, req, last, chain, gone, tally>>

NextFault == Next \/ StoreFault

\* The database may become inaccessible at any moment, the first included.
SpecFault == Init /\ [][NextFault]_vars

\* ------------------------------------------------------------------ claims
\* In every formula below `last` is the request of the latest step and `docs`
\* the store right after that step; last.before is the store right before it.

Is(h) == last.handler = h
Done == last.pc = "done"

\* C1: createCounter on a well-formed name with no stored counter responds 200
\* and leaves a counter with that id and count 0 in the store; and a
\* readCounter of a name that was created and not operated on since responds
\* 200 and reports that id with count 0.
C1_CreateThenReadZero ==
  /\ (Is("createCounter") /\ last.name \in Names /\ ~last.before[last.name].exists)
       => /\ Done /\ last.status = 200 /\ last.ended
          /\ docs[last.name].exists /\ docs[last.name].count = 0
          /\ \A n \in Names \ {last.name} : docs[n] = last.before[n]
  /\ (Is("readCounter") /\ last.fresh)
       => Done /\ last.status = 200 /\ last.body = <<last.name, 0>>

C1_Witness ==
  /\ Is("readCounter") /\ last.fresh /\ last.status = 200 /\ last.body = <<"b", 0>>
  /\ docs["b"].exists /\ docs["b"].rev = 3

C3_SequentialUpdates ==
  chain.name # None
    => /\ chain.ok
       /\ docs[chain.name].exists
       /\ docs[chain.name].count = chain.len

C3_Witness ==
  /\ chain.name # None /\ chain.len = 2 /\ chain.ok
  /\ Is("updateCounter") /\ Done /\ last.status = 200 /\ last.inChain

\* C4: an updateCounter that fails, because no counter is stored under the
\* name when it loads or because its write-back is stale, responds 404 and
\* changes nothing in the store.
C4_FailedUpdateChangesNothing ==
  (Is("updateCounter") /\ last.cause # "none")
    => /\ Done /\ last.status = 404 /\ last.heads = 1
       /\ docs = last.before /\ ~last.wrote

C4_Witness ==
  /\ Is("updateCounter") /\ last.cause = "stale" /\ last.status = 404
  /\ Live(docs, last.name) /\ docs[last.name].count = 1

\* C5 (as claimed): a readCounter that runs after a deleteCounter of the name
\* responded 200, the name not having been created again, responds 404.
C5_ReadAfterDelete404 ==
  (Is("readCounter") /\ last.afterDelete) => last.status = 404

\* C6: dumpCounters responds 200 and its list has exactly one entry per stored
\* counter, the id paired with the stored count: no entry is duplicated,
\* missing or extra.
C6_ListingIsTheStore ==
  Is("dumpCounters")
    => /\ Done /\ last.status = 200
       /\ \A i \in 1..Len(last.body) :
            /\ Live(docs, last.body[i][1])
            /\ last.body[i][2] = docs[last.body[i][1]].count
       /\ \A i, j \in 1..Len(last.body) : last.body[i][1] = last.body[j][1] => i = j
       /\ \A n \in Names : docs[n].exists => \E i \in 1..Len(last.body) : last.body[i][1] = n
       /\ docs = last.before

C6_Witness ==
  /\ Is("dumpCounters") /\ last.status = 200
  /\ last.body = <<<<"a", 0>>, <<"b", 0>>, <<"c", 0>>>>

\* C7 (as claimed): createCounter with an absent or empty name responds 400,
\* calls nothing of the persistence module and leaves the store unchanged.
C7_NamelessCreate400 ==
  (Is("createCounter") /\ last.name \in {Empty, Undefined})
    => last.status = 400 /\ last.dbCalls = 0 /\ docs = last.before

\* The handler each endpoint is meant to reach.
EndpointHandler(p) ==
  CASE p = "/create" -> "createCounter"
    [] p = "/read" -> "readCounter"
    [] p = "/update" -> "updateCounter"
    [] p = "/delete" -> "deleteCounter"
    [] p = "/all" -> "dumpCounters"
    [] OTHER -> None

\* C8 (as claimed): each request the client sends reaches the handler of its
\* endpoint, never the catch-all 404.
C8_EndpointsDispatched ==
  (last.via = "http" /\ <<last.method, last.path>> \in ClientRequests)
    => last.handler = EndpointHandler(last.path)

\* C9 (as claimed): a defined path requested with a method it does not define
\* is answered 405, with no counter handler and no persistence call.
C9_WrongMethod405 ==
  (last.via = "http" /\ EndpointHandler(last.path) # None
     /\ <<last.method, last.path>> \notin ClientRequests)
    => last.status = 405 /\ last.handler \notin Handlers /\ last.dbCalls = 0

\* C10: a deleteCounter whose load succeeds has written and ended its one 200
\* response when it issues the removal, and its status is 200 whatever the
\* removal does later; it answers 404 only when the load fails, and then it
\* issues no removal.
C10_DeleteRespondsBeforeRemoval ==
  Is("deleteCounter")
    => /\ last.loadOk
            => /\ last.status = 200 /\ last.heads = 1 /\ last.ended
               /\ last.endedAtRemove
               /\ last.pc \in {"remove", "done"}
               /\ last.pc = "done" <=> last.removeRes # "none"
       /\ ~last.loadOk
            => /\ Done /\ last.status = 404 /\ last.heads = 1
               /\ last.removeRes = "none" /\ last.dbCalls = 1

C10_Witness ==
  /\ Is("deleteCounter") /\ last.loadOk /\ last.status = 200
  /\ last.removeRes = "rejected" /\ Live(docs, last.name)

\* C11: removeCounter called for a name with no stored document fails: its
\* caller observes a rejection, not a successful completion, and the store is
\* unchanged.  (In the program the call is deleteCounter's; the document can be
\* gone by the time the removal runs.)
C11_RemoveAbsentRejects ==
  (Is("deleteCounter") /\ last.removeRes # "none" /\ ~Live(last.before, last.name)) =>
    (last.removeSeen = "rejected" /\ docs = last.before)

UpdateInFlight(n) ==
  \E s \in Slots : req[s].handler = "updateCounter" /\ req[s].name = n /\ req[s].pc = "modify"

\* C13: no lost update.  Whenever no update of a stored counter is in flight,
\* its stored count is the number of updateCounter requests on it that
\* responded 200 since it was created; and an updateCounter that responds 200
\* did not load a revision that an earlier updateCounter answering 200 had
\* loaded.
C13_NoLostUpdate ==
  /\ \A n \in Names : (Live(docs, n) /\ ~UpdateInFlight(n)) => docs[n].count = tally[n].ok
  /\ (Is("updateCounter") /\ Done /\ last.status = 200) => ~last.again

\* Two updates loaded the same revision: one answered 200, this one 404.
C13_Witness ==
  /\ Is("updateCounter") /\ Done /\ last.status = 404 /\ last.cause = "stale"
  /\ last.loaded = tally[last.name].rev
  /\ Live(docs, last.name) /\ ~UpdateInFlight(last.name)
  /\ docs[last.name].count = 1 /\ tally[last.name].ok = 1

\* C14: the delete/update race.  When the removal issued by a deleteCounter
\* that responded 200 reaches the store after the counter has moved on from
\* the revision the delete loaded, the removal is rejected, the store is left
\* as it was with the counter still stored, and the rejection is observed by
\* nobody: removeCounter's promise has resolved.
C14_StaleRemovalRejected ==
  (/\ Is("deleteCounter") /\ Done /\ last.status = 200
   /\ last.cause = "stale" /\ Live(last.before, last.name)) =>
    (/\ last.removeRes = "rejected" /\ last.removeSeen = "resolved"
     /\ docs = last.before /\ Live(docs, last.name))

\* The race itself: one deleteCounter and one updateCounter loaded the same
\* revision of a counter, both responded 200, both have finished, and the
\* counter is still stored, with count 1.
C14_Witness ==
  /\ Is("deleteCounter") /\ Done /\ last.status = 200
  /\ last.removeRes = "rejected" /\ last.cause = "stale"
  /\ tally[last.name].ok = 1 /\ tally[last.name].rev = last.loaded
  /\ \A s \in Slots : Free(s)
  /\ Live(docs, last.name) /\ docs[last.name].count = 1

\* The deleteCounter in slot s has just responded 200 for a stored counter, its
\* removal is pending, and no other create, update or delete on that name is
\* in flight.
DeletedAlone(s) ==
  /\ req[s].handler = "deleteCounter" /\ req[s].pc = "remove"
  /\ last = req[s]
  /\ ~OtherMutator(s, req[s].name)

\* While that removal is pending, another update or delete on the name is in flight.
Disturbed(s) == req[s].pc = "remove" /\ OtherMutator(s, req[s].name)

\* A removal was accepted in the latest step and slot s is free: the counter of
\* that delete is absent from the store.  (Slot s, once DeletedAlone, is first
\* free right after its own removal, whose request is then `last`.)
Removed(s) ==
  /\ Free(s) /\ Is("deleteCounter") /\ Done
  /\ last.removeRes = "removed" /\ ~Live(docs, last.name)

\* C15: when deleteCounter responds 200 for a stored counter x while no other
\* request on x is in flight, then, every issued store call completing, x is
\* eventually absent from the store, unless another update or delete on x is
\* issued in the meantime.
C15_DeleteEventuallyRemoves ==
  \A s \in Slots : DeletedAlone(s) ~> (Removed(s) \/ Disturbed(s))

\* The removal of an undisturbed delete took the counter, count 1, out of the store.
C15_Witness ==
  /\ Is("deleteCounter") /\ Done /\ last.status = 200
  /\ last.removeRes = "removed" /\ last.cause = "none"
  /\ last.before[last.name].count = 1
  /\ ~Live(docs, last.name) /\ \A s \in Slots : Free(s)

\* C16: every persistence failure that arises during a request is caught at
\* the handler boundary: no store call issued by createCounter, readCounter,
\* updateCounter, deleteCounter or dumpCounters is rejected without a catch of
\* that handler observing the rejection.
C16_RejectionsCaught == (last.handler \in Handlers) => ~last.unhandled

\* C17: in every reachable state the count of each stored counter is an
\* integer >= 0, and every step that leaves a counter stored leaves its count
\* unchanged or raises it by exactly 1 (the store is keyed by id, so the
\* counter stored under a name before and after a step is the same counter).
C17_CountMonotone ==
  /\ [](\A n \in Names : Live(docs, n) => docs[n].count \in Nat)
  /\ [][\A n \in Names :
          (Live(docs, n) /\ Live(docs', n)) =>
            docs'[n].count \in {docs[n].count, docs[n].count + 1}]_vars

\* An update raised a stored count from 1 to 2.
C17_Witness ==
  /\ Is("updateCounter") /\ Done /\ last.status = 200
  /\ last.before[last.name].count = 1 /\ docs[last.name].count = 2

\* C18: readCounter and dumpCounters never change the store: whatever is
\* stored and whatever the name, the store right after the request is the
\* store right before it, on the 200 path and on the failure path (404 for
\* readCounter, 500 for dumpCounters).
C18_ReadsChangeNothing ==
  (Is("readCounter") \/ Is("dumpCounters")) =>
    (/\ docs = last.before /\ ~last.wrote
     /\ last.status \in (IF Is("readCounter") THEN {200, 404} ELSE {200, 500}))

\* dumpCounters failed with 500 over a store that holds a counter.
C18_Witness ==
  /\ Is("dumpCounters") /\ last.status = 500
  /\ \E n \in Names : Live(docs, n) /\ docs[n].count = 1
  /\ docs = last.before

\* C19: requests are isolated by name.  No step of a createCounter,
\* updateCounter or deleteCounter on name x, succeeding or failing, creates,
\* removes or changes a counter stored under another name y.
C19_IsolatedByName ==
  (last.handler \in Mutators) =>
    \A y \in Names \ {last.name} : docs[y] = last.before[y]

\* An update changed its own counter while another counter was stored.
C19_Witness ==
  /\ Is("updateCounter") /\ Done /\ last.status = 200 /\ last.wrote
  /\ docs[last.name] # last.before[last.name]
  /\ \E y \in Names \ {last.name} : Live(docs, y) /\ docs[y] = last.before[y]

\* The statuses the five handlers write.
Statuses == {200, 400, 404, 500}

\* Request r of one of the five handlers has had at most one status written,
\* and if it has ended or finished, exactly one, before its end.
OnceSoFar(r) ==
  (r.handler \in Handlers) =>
    (/\ r.heads <= 1
     /\ r.ended => (r.heads = 1 /\ r.status \in Statuses)
     /\ r.pc = "done" => r.ended)

\* C20: every invocation of createCounter, readCounter, updateCounter,
\* deleteCounter and dumpCounters responds exactly once: no request ever has a
\* second status written (deleteCounter writes no 404 after its 200), none
\* finishes without a status, and, every awaited store call completing, a
\* handler that is waiting for its store call eventually finishes.
C20_RespondsExactlyOnce ==
  /\ [](OnceSoFar(last) /\ \A s \in Slots : OnceSoFar(req[s]))
  /\ \A s \in Slots : (req[s].pc = "modify") ~> Free(s)

\* A delete whose removal was rejected has its one status, the 200.
C20_Witness ==
  /\ Is("deleteCounter") /\ Done /\ last.removeRes = "rejected"
  /\ last.heads = 1 /\ last.status = 200 /\ last.ended

====
